---------------------------- MODULE Spec2Model ----------------------------
(***************************************************************************)
(* A model of bb_calc/pnl_calculator.py: the CSV loader (header discovery, *)
(* the headered table reader, row normalisation), the realized-P&L         *)
(* aggregator (window filter, running sum, earliest/latest fill) and the   *)
(* guarded logging configuration.                                          *)
(*                                                                         *)
(* Text is modelled as sequences of tokens: the characters the csv parser  *)
(* and the header cleaning distinguish (comma, quote, space, byte-order    *)
(* mark, newline) are tokens of their own, and every maximal run of other  *)
(* characters is one word token.  Decimal values keep their coefficient    *)
(* digits, so that the 28-digit precision of the arithmetic context is     *)
(* part of the model.                                                      *)
(***************************************************************************)
EXTENDS Integers, Sequences, FiniteSets, TLC

VARIABLES
    \* ---- aggregator (summarize_realized_pnl / calculate_realized_pnl)
    trades,        \* the input sequence of Trade records
    start,         \* Optional[datetime]: None or Some(t)
    end,           \* Optional[datetime]
    api,           \* which entry point the caller used
    spc,           \* position in the call
    cursor,        \* index of the next trade the filter generator will look at
    total,         \* running Decimal sum
    trade_count,
    earliest,
    latest,
    sresult,       \* what the call gave back: a summary, a total, or an error
    \* ---- loader (load_trades)
    fileExists,    \* csv_path.exists()
    lines,         \* list(handle): the file's lines, terminators kept
    lpc,           \* position in load_trades
    index,         \* loop index of _find_header_index
    header_index,
    fieldnames,    \* reader.fieldnames after cleaning
    pos,           \* the table reader's position: next unread line of lines
    loaded,        \* the list the comprehension has built so far
    lresult,       \* what load_trades gave back: the list, or an error
    \* ---- logging (configure_logging)
    handlers,      \* logging.getLogger().handlers
    rootLevel,     \* the root logger's level
    environ,       \* os.environ's BB_CALC_LOG_LEVEL: None or Some(name)
    cpc,           \* per caller: position in configure_logging
    carg,          \* per caller: the log_level argument of the call in progress
    ccalls,        \* per caller: calls made so far
    installs       \* how many times basicConfig configured the root logger

sumVars  == <<trades, start, end, api, spc, cursor, total, trade_count,
              earliest, latest, sresult>>
loadVars == <<fileExists, lines, lpc, index, header_index, fieldnames, pos,
              loaded, lresult>>
logVars  == <<handlers, rootLevel, environ, cpc, carg, ccalls, installs>>
vars     == <<sumVars, loadVars, logVars>>

-----------------------------------------------------------------------------
(* Optional values *)

None == <<>>
Some(x) == <<x>>
IsSet(o) == o # None
Val(o) == o[1]

Max(a, b) == IF a >= b THEN a ELSE b
Min(a, b) == IF a <= b THEN a ELSE b

-----------------------------------------------------------------------------
(* decimal.Decimal: sign, coefficient digits (most significant first, no   *)
(* leading zero except for zero itself), exponent.  Arithmetic is carried  *)
(* out in the default context: precision 28, ROUND_HALF_EVEN.              *)

Prec == 28

Zeros(n) == [k \in 1..n |-> 0]

RECURSIVE StripZeros(_)
StripZeros(d) ==
    IF Len(d) > 1 /\ d[1] = 0 THEN StripZeros(Tail(d)) ELSE d

PadLeft(d, n) == Zeros(n - Len(d)) \o d

IsZeroMag(d) == \A k \in 1..Len(d) : d[k] = 0

\* Sum of two coefficients.
AddMag(a, b) ==
    LET n == Max(Len(a), Len(b))
        x == PadLeft(a, n)
        y == PadLeft(b, n)
        c[k \in 1..(n + 1)] ==
            IF k = n + 1 THEN 0 ELSE (x[k] + y[k] + c[k + 1]) \div 10
    IN  StripZeros(<<c[1]>> \o [k \in 1..n |-> (x[k] + y[k] + c[k + 1]) % 10])

\* -1, 0, 1 as coefficient a is below, equal to, above coefficient b.
CmpMag(a, b) ==
    LET n == Max(Len(a), Len(b))
        x == PadLeft(a, n)
        y == PadLeft(b, n)
        diff == {k \in 1..n : x[k] # y[k]}
    IN  IF diff = {} THEN 0
        ELSE LET k == CHOOSE m \in diff : \A j \in diff : m <= j
             IN  IF x[k] < y[k] THEN -1 ELSE 1

\* Difference of two coefficients, a >= b.
SubMag(a, b) ==
    LET n == Max(Len(a), Len(b))
        x == PadLeft(a, n)
        y == PadLeft(b, n)
        br[k \in 1..(n + 1)] ==
            IF k = n + 1 THEN 0
            ELSE IF x[k] - y[k] - br[k + 1] < 0 THEN 1 ELSE 0
    IN  StripZeros([k \in 1..n |-> (x[k] - y[k] - br[k + 1] + 10) % 10])

Dec(s, d, e) == [sign |-> s, dig |-> d, exp |-> e]

DecZero == Dec(0, <<0>>, 0)

\* The exact sum of two decimals, at the smaller of the two exponents.
ExactAdd(a, b) ==
    LET e  == Min(a.exp, b.exp)
        x  == StripZeros(a.dig \o Zeros(a.exp - e))
        y  == StripZeros(b.dig \o Zeros(b.exp - e))
        c  == CmpMag(x, y)
    IN  IF a.sign = b.sign THEN Dec(IF IsZeroMag(x) /\ IsZeroMag(y) THEN Min(a.sign, b.sign)
                                     ELSE a.sign, AddMag(x, y), e)
        ELSE IF c = 0 THEN Dec(0, <<0>>, e)
        ELSE IF c > 0 THEN Dec(a.sign, SubMag(x, y), e)
        ELSE Dec(b.sign, SubMag(y, x), e)

\* Decimal._fix: round the coefficient to the context precision, half to even.
Fix(a) ==
    IF Len(a.dig) <= Prec THEN a
    ELSE LET drop == Len(a.dig) - Prec
             keep == SubSeq(a.dig, 1, Prec)
             rest == SubSeq(a.dig, Prec + 1, Len(a.dig))
             tail == SubSeq(rest, 2, Len(rest))
             up   == \/ rest[1] > 5
                     \/ rest[1] = 5 /\ ~IsZeroMag(tail)
                     \/ rest[1] = 5 /\ IsZeroMag(tail) /\ keep[Prec] % 2 = 1
             r    == IF up THEN AddMag(keep, <<1>>) ELSE keep
         IN  IF Len(r) > Prec
             THEN Dec(a.sign, SubSeq(r, 1, Prec), a.exp + drop + 1)
             ELSE Dec(a.sign, r, a.exp + drop)

\* Decimal.__add__ in the default context.
DecAdd(a, b) == Fix(ExactAdd(a, b))

\* Decimal.__eq__: numeric equality, whatever the exponents.
DecEq(a, b) ==
    LET e == Min(a.exp, b.exp)
        x == StripZeros(a.dig \o Zeros(a.exp - e))
        y == StripZeros(b.dig \o Zeros(b.exp - e))
    IN  /\ CmpMag(x, y) = 0
        /\ (a.sign = b.sign \/ IsZeroMag(x))


-----------------------------------------------------------------------------
(* Trade and PnLSummary *)

Trade(u, c, tt, q, ep, pnl, fp, et, ft, ct) ==
    [uid |-> u, contract |-> c, trade_type |-> tt, quantity |-> q,
     entry_price |-> ep, realized_pnl |-> pnl, filled_price |-> fp,
     exit_type |-> et, filled_time |-> ft, created_time |-> ct]

PnLSummary(t, n, s, e, ef, lf) ==
    [kind |-> "summary", total |-> t, trade_count |-> n, start |-> s,
     end |-> e, earliest_fill |-> ef, latest_fill |-> lf]

\* A datetime object is true whatever its value: `if start` asks only whether
\* a bound was given.
Truthy(o) == IsSet(o)

-----------------------------------------------------------------------------
(* The aggregator's inputs *)

MaxTrades == 3

\* A 29-digit coefficient: 1.0000000000000000000000000001
FineDigits == [k \in 1..(Prec + 1) |-> IF k = 1 \/ k = Prec + 1 THEN 1 ELSE 0]

PnlSamples ==
    [a |-> Dec(0, <<1, 5>>, -1),          \* 1.5
     b |-> Dec(1, <<2>>, 0),              \* -2
     c |-> Dec(0, FineDigits, -Prec),     \* 1.0000000000000000000000000001
     d |-> Dec(0, <<1>>, Prec),           \* 1E+28
     e |-> Dec(0, <<0>>, 0)]              \* 0

SampleTrade(t, pnl) ==
    Trade(Some(<<"382647166">>), Some(<<"BTCUSDT">>), Some(<<"SELL">>),
          Dec(0, <<1>>, 0), Dec(0, <<1, 0>>, 0), pnl, Dec(0, <<1, 1>>, 0),
          Some(<<"Trade">>), t, t)

TradeSamples ==
    { SampleTrade(1, PnlSamples.a), SampleTrade(2, PnlSamples.b),
      SampleTrade(2, PnlSamples.c), SampleTrade(3, PnlSamples.d),
      SampleTrade(3, PnlSamples.e) }

SeqsUpTo(S, n) == UNION { [1..k -> S] : k \in 0..n }

BoundSamples == {None} \cup { Some(t) : t \in 0..4 }

-----------------------------------------------------------------------------
(* summarize_realized_pnl and calculate_realized_pnl *)

\* _filter_trades with the test of the end bound left out
FilteredOutNoEnd(trade, s, e) ==
    Truthy(s) /\ trade.filled_time < Val(s)

\* _filter_trades: whether the generator skips the trade.
FilteredOut(trade, s, e) ==
    \/ Truthy(s) /\ trade.filled_time < Val(s)
    \/ Truthy(e) /\ trade.filled_time > Val(e)

\* the range test with >= in place of >
InvalidRangeStrict(s, e) == Truthy(s) /\ Truthy(e) /\ Val(s) >= Val(e)

\* `if start and end and start > end`
InvalidRange(s, e) == Truthy(s) /\ Truthy(e) /\ Val(s) > Val(e)

RangeError == [kind |-> "error", err |-> "InvalidRange"]

\* The body of summarize_realized_pnl up to the loop.
Enter(which) ==
    /\ spc = "idle"
    /\ api' = which
    /\ IF InvalidRange(start, end)
       THEN /\ spc' = "done"
            /\ sresult' = RangeError
            /\ UNCHANGED <<total, trade_count, earliest, latest, cursor>>
       ELSE /\ spc' = "loop"
            /\ total' = DecZero
            /\ trade_count' = 0
            /\ earliest' = None
            /\ latest' = None
            /\ cursor' = 1
            /\ UNCHANGED sresult
    /\ UNCHANGED <<trades, start, end, loadVars, logVars>>

SummarizeCall == Enter("summarize")

CalculateCall == Enter("calculate")

\* `if earliest is None or trade.filled_time < earliest`
EarlierFill(e, t) == IF e = None \/ t < Val(e) THEN Some(t) ELSE e

\* the update of latest with the comparison of earliest
LaterFillWrong(l, t) == IF l = None \/ t < Val(l) THEN Some(t) ELSE l

\* `if latest is None or trade.filled_time > latest`
LaterFill(l, t) == IF l = None \/ t > Val(l) THEN Some(t) ELSE l

\* One trade drawn from the filter generator: skipped, or accumulated.
SummarizeStep ==
    /\ spc = "loop"
    /\ cursor <= Len(trades)
    /\ LET trade == trades[cursor]
       IN  IF FilteredOut(trade, start, end)
           THEN UNCHANGED <<total, trade_count, earliest, latest>>
           ELSE /\ total' = DecAdd(total, trade.realized_pnl)
                /\ trade_count' = trade_count + 1
                /\ earliest' = EarlierFill(earliest, trade.filled_time)
                /\ latest' = LaterFill(latest, trade.filled_time)
    /\ cursor' = cursor + 1
    /\ UNCHANGED <<trades, start, end, api, spc, sresult, loadVars, logVars>>

\* The input is exhausted: the summary is built and, for
\* calculate_realized_pnl, projected to its total.
SummarizeReturn ==
    /\ spc = "loop"
    /\ cursor > Len(trades)
    /\ spc' = "done"
    /\ LET summary == PnLSummary(total, trade_count, start, end, earliest, latest)
       IN  sresult' = IF api = "calculate"
                      THEN [kind |-> "total", total |-> summary.total]
                      ELSE summary
    /\ UNCHANGED <<trades, start, end, api, cursor, total, trade_count,
                   earliest, latest, loadVars, logVars>>

-----------------------------------------------------------------------------
(* Text: tokens, cells, and str.strip / str.lstrip *)

COMMA == ","
QUOTE == "\""
SP    == " "
BOM   == "BOM"      \* U+FEFF
NL    == "NL"       \* the line terminator list(handle) keeps on each line

IsSpace(c) == c \in {SP, NL}

RECURSIVE LStrip(_, _)
\* s with every leading token of the set chars removed
LStrip(s, chars) ==
    IF s # <<>> /\ Head(s) \in chars THEN LStrip(Tail(s), chars) ELSE s

RECURSIVE RStrip(_, _)
RStrip(s, chars) ==
    IF s # <<>> /\ s[Len(s)] \in chars
    THEN RStrip(SubSeq(s, 1, Len(s) - 1), chars) ELSE s

\* str.strip(): leading and trailing whitespace removed
Strip(s) == RStrip(LStrip(s, {SP, NL}), {SP, NL})

\* _clean_header_cell: value.strip().lstrip(U+FEFF)
CleanHeaderCell(value) == LStrip(Strip(value), {BOM})

-----------------------------------------------------------------------------
(* csv.reader, excel dialect: delimiter ',', quotechar '"', doublequote,    *)
(* not strict.  The parser state is the state name, the fields saved so    *)
(* far and the field being collected.  EOL is the end-of-line signal the   *)
(* reader feeds the parser after the last character of each line.  A line  *)
(* of list(handle) holds its terminator only at its end, so the parser's   *)
(* EAT_CRNL state never meets another character and csv.Error is not       *)
(* raised.                                                                 *)

EOL == "EOL"

ParserReset == [st |-> "START_RECORD", fields |-> <<>>, field |-> <<>>]

SaveField(ps, next) ==
    [st |-> next, fields |-> Append(ps.fields, ps.field), field |-> <<>>]

AddChar(ps, c, next) ==
    [st |-> next, fields |-> ps.fields, field |-> Append(ps.field, c)]

Goto(ps, next) == [ps EXCEPT !.st = next]

AfterLineEnd(c) == IF c = EOL THEN "START_RECORD" ELSE "EAT_CRNL"

\* parse_process_char, case START_FIELD
StartField(ps, c) ==
    IF c \in {NL, EOL} THEN SaveField(ps, AfterLineEnd(c))
    ELSE IF c = QUOTE THEN Goto(ps, "IN_QUOTED_FIELD")
    ELSE IF c = COMMA THEN SaveField(ps, "START_FIELD")
    ELSE AddChar(ps, c, "IN_FIELD")

\* parse_process_char
ProcessChar(ps, c) ==
    CASE ps.st = "START_RECORD" ->
            IF c = EOL THEN ps
            ELSE IF c = NL THEN Goto(ps, "EAT_CRNL")
            ELSE StartField(ps, c)
      [] ps.st = "START_FIELD" -> StartField(ps, c)
      [] ps.st = "IN_FIELD" ->
            IF c \in {NL, EOL} THEN SaveField(ps, AfterLineEnd(c))
            ELSE IF c = COMMA THEN SaveField(ps, "START_FIELD")
            ELSE AddChar(ps, c, "IN_FIELD")
      [] ps.st = "IN_QUOTED_FIELD" ->
            IF c = EOL THEN ps
            ELSE IF c = QUOTE THEN Goto(ps, "QUOTE_IN_QUOTED_FIELD")
            ELSE AddChar(ps, c, "IN_QUOTED_FIELD")
      [] ps.st = "QUOTE_IN_QUOTED_FIELD" ->
            IF c = QUOTE THEN AddChar(ps, c, "IN_QUOTED_FIELD")
            ELSE IF c = COMMA THEN SaveField(ps, "START_FIELD")
            ELSE IF c \in {NL, EOL} THEN SaveField(ps, AfterLineEnd(c))
            ELSE AddChar(ps, c, "IN_FIELD")
      [] ps.st = "EAT_CRNL" ->
            IF c = EOL THEN Goto(ps, "START_RECORD") ELSE ps

RECURSIVE ProcessFrom(_, _, _)
\* the characters of s from position k on, fed to the parser one by one
ProcessFrom(ps, s, k) ==
    IF k > Len(s) THEN ps ELSE ProcessFrom(ProcessChar(ps, s[k]), s, k + 1)

\* One line fed to the parser, then the end-of-line signal.
ProcessLine(ps, line) == ProcessChar(ProcessFrom(ps, line, 1), EOL)

RECURSIVE ReadFrom(_, _, _)
\* Reader_iternext: lines are consumed from position p until the parser is
\* back at START_RECORD; at the end of the input a field left open (a quote
\* never closed) is saved and the record returned.
ReadFrom(ls, p, ps) ==
    IF p > Len(ls)
    THEN IF ps.field # <<>> \/ ps.st = "IN_QUOTED_FIELD"
         THEN [found |-> TRUE, row |-> Append(ps.fields, ps.field), next |-> p]
         ELSE [found |-> FALSE, row |-> <<>>, next |-> p]
    ELSE LET ps2 == ProcessLine(ps, ls[p])
         IN  IF ps2.st = "START_RECORD"
             THEN [found |-> TRUE, row |-> ps2.fields, next |-> p + 1]
             ELSE ReadFrom(ls, p + 1, ps2)

\* next(reader) with the reader at line p of ls
ReadRecord(ls, p) == ReadFrom(ls, p, ParserReset)

RECURSIVE NextRow(_, _)
\* DictReader.__next__: rows that are [] (blank lines) are passed over
NextRow(ls, p) ==
    LET rec == ReadRecord(ls, p)
    IN  IF rec.found /\ rec.row = <<>> THEN NextRow(ls, rec.next) ELSE rec

\* dict(zip(fieldnames, row)), then restval None for the field names a short
\* row leaves without a cell: the last column of a name decides its value.
RowGet(names, row, key) ==
    LET at == {k \in 1..Len(names) : names[k] = key}
        k  == CHOOSE m \in at : \A j \in at : j <= m
    IN  IF k <= Len(row) THEN Some(row[k]) ELSE None

-----------------------------------------------------------------------------
(* Column names *)

Uid         == <<"Uid">>
Contracts   == <<"Contracts">>
TradeType   == <<"Trade", SP, "Type">>
Qty         == <<"Qty">>
EntryPrice  == <<"Entry", SP, "Price">>
RealizedPnL == <<"Realized", SP, "P&L">>
FilledPrice == <<"Filled", SP, "Price">>
ExitType    == <<"Exit", SP, "Type">>
FilledTime  == <<"Filled/Settlement", SP, "Time(UTC+0)">>
CreateTime  == <<"Create", SP, "Time">>

\* _required_columns
RequiredColumns ==
    {Uid, Contracts, TradeType, Qty, EntryPrice, RealizedPnL, FilledPrice,
     ExitType, FilledTime, CreateTime}

SeqToSet(s) == {s[k] : k \in 1..Len(s)}

\* the required names as sorted() orders them
SortedColumns == <<Contracts, CreateTime, EntryPrice, ExitType, FilledPrice,
                   FilledTime, Qty, RealizedPnL, TradeType, Uid>>

\* the header test with "some required name" in place of "every required name"
IsHeaderLineAny(line) ==
    LET row == ReadRecord(<<line>>, 1).row
    IN  \E k \in 1..Len(row) : CleanHeaderCell(row[k]) \in RequiredColumns

\* The test of _find_header_index on one line: the line is parsed on its
\* own, empty cells are dropped, the rest cleaned.
LineCells(line) == ReadRecord(<<line>>, 1).row

CleanedCells(line) ==
    LET row == LineCells(line)
    IN  {CleanHeaderCell(row[k]) : k \in {j \in 1..Len(row) : row[j] # <<>>}}

IsHeaderLine(line) == RequiredColumns \subseteq CleanedCells(line)

-----------------------------------------------------------------------------
(* Cell conversions *)

\* The numeric words of the modelled files and the Decimal each denotes.
DecimalWords ==
    "1.5" :> Dec(0, <<1, 5>>, -1) @@ "10" :> Dec(0, <<1, 0>>, 0) @@
    "2.5" :> Dec(0, <<2, 5>>, -1) @@ "11" :> Dec(0, <<1, 1>>, 0) @@
    "-2"  :> Dec(1, <<2>>, 0)     @@ "3"  :> Dec(0, <<3>>, 0)

\* The date and time words of the modelled files: day number, second of day.
DateWords == "2025-07-17" :> 17 @@ "2025-07-18" :> 18
TimeWords == "06:34:26" :> (6 * 3600 + 34 * 60 + 26) @@
             "07:33:23" :> (7 * 3600 + 33 * 60 + 23)

DateTime(day, sec) == day * (24 * 3600) + sec

Ok(v) == [kind |-> "ok", v |-> v]
Error(e, column, value) ==
    [kind |-> "error", err |-> e, column |-> column, value |-> value,
     missing |-> <<>>]

\* a conversion that yields zero for what it cannot parse
ParseDecimalDefault(value, column) ==
    IF value # None /\ Len(Strip(Val(value))) = 1
                    /\ Strip(Val(value))[1] \in DOMAIN DecimalWords
    THEN Ok(DecimalWords[Strip(Val(value))[1]])
    ELSE Ok(DecZero)

\* _parse_decimal.  Decimal(value) strips surrounding whitespace itself; a
\* value of None (a cell the row does not have) is a TypeError, which the
\* except clause does not catch.
ParseDecimal(value, column) ==
    IF value = None THEN Error("TypeError", column, None)
    ELSE LET w == Strip(Val(value))
         IN  IF Len(w) = 1 /\ w[1] \in DOMAIN DecimalWords
             THEN Ok(DecimalWords[w[1]])
             ELSE Error("InvalidDecimal", column, value)

\* strptime(value, "%Y-%m-%d %H:%M:%S"): the blank of the format matches one
\* or more whitespace characters; nothing may precede or follow.
MatchesFull(c) ==
    /\ Len(c) >= 3
    /\ c[1] \in DOMAIN DateWords
    /\ c[Len(c)] \in DOMAIN TimeWords
    /\ \A k \in 2..(Len(c) - 1) : IsSpace(c[k])

\* strptime(value, "%Y-%m-%d")
MatchesDate(c) == Len(c) = 1 /\ c[1] \in DOMAIN DateWords

\* _parse_datetime: the formats of _DATE_FORMATS in order
ParseDatetime(value, column) ==
    IF value = None THEN Error("TypeError", column, None)
    ELSE LET c == Val(value)
         IN  IF MatchesFull(c)
             THEN Ok(DateTime(DateWords[c[1]], TimeWords[c[Len(c)]]))
             ELSE IF MatchesDate(c) THEN Ok(DateTime(DateWords[c[1]], 0))
             ELSE Error("UnsupportedDatetime", column, value)

\* _normalize_trade on the dict the table reader builds from one row: the
\* keyword arguments are evaluated in order and the first failure is raised.
NormalizeTrade(names, row) ==
    LET q   == ParseDecimal(RowGet(names, row, Qty), Qty)
        ep  == ParseDecimal(RowGet(names, row, EntryPrice), EntryPrice)
        pnl == ParseDecimal(RowGet(names, row, RealizedPnL), RealizedPnL)
        fp  == ParseDecimal(RowGet(names, row, FilledPrice), FilledPrice)
        ft  == ParseDatetime(RowGet(names, row, FilledTime), FilledTime)
        ct  == ParseDatetime(RowGet(names, row, CreateTime), CreateTime)
        cs  == <<q, ep, pnl, fp, ft, ct>>
        bad == {k \in 1..6 : cs[k].kind = "error"}
    IN  IF bad # {}
        THEN cs[CHOOSE k \in bad : \A j \in bad : k <= j]
        ELSE Ok(Trade(RowGet(names, row, Uid), RowGet(names, row, Contracts),
                      RowGet(names, row, TradeType), q.v, ep.v, pnl.v, fp.v,
                      RowGet(names, row, ExitType), ft.v, ct.v))

-----------------------------------------------------------------------------
(* The loader's inputs: files made of up to MaxLines of the sample lines *)

MaxLines == 3

RECURSIVE JoinCells(_)
\* the cells separated by commas
JoinCells(cells) ==
    IF Len(cells) = 1 THEN cells[1]
    ELSE cells[1] \o <<COMMA>> \o JoinCells(Tail(cells))

Line(cells) == JoinCells(cells) \o <<NL>>

StdOrder  == <<Uid, Contracts, TradeType, Qty, EntryPrice, RealizedPnL,
               FilledPrice, ExitType, FilledTime, CreateTime>>
\* the same columns with a text column last
PermOrder == <<Uid, Contracts, TradeType, Qty, EntryPrice, RealizedPnL,
               FilledPrice, FilledTime, CreateTime, ExitType>>

Fill1 == <<"2025-07-18", SP, "06:34:26">>
Fill2 == <<"2025-07-18", SP, "07:33:23">>

LineSamples ==
    [ \* metadata that is no CSV: a quote that is never closed
      preamble   |-> <<QUOTE, "UID:", SP, "382647166", NL>>,
      \* nine of the ten names
      nearHeader |-> Line(SubSeq(StdOrder, 1, 9)),
      header     |-> Line(StdOrder),
      \* a byte-order mark before the first name, blanks around another
      headerBom  |-> Line(<<<<BOM>> \o Uid, Contracts, TradeType,
                            <<SP>> \o Qty \o <<SP>>>> \o SubSeq(StdOrder, 5, 10)),
      headerPerm |-> Line(PermOrder),
      \* the last name in a quoted cell whose quote is left open
      headerOpen |-> Line(SubSeq(StdOrder, 1, 9) \o <<<<QUOTE>> \o CreateTime>>),
      rowA       |-> Line(<<<<"382647166">>, <<"BTCUSDT">>, <<"SELL">>, <<"1.5">>,
                            <<"10">>, <<"2.5">>, <<"11">>, <<"Trade">>, Fill1,
                            <<"2025-07-18">>>>),
      \* a quoted cell holding a comma, a number with blanks around it
      rowB       |-> Line(<<<<"382647166">>, <<QUOTE, "BTC", COMMA, "USDT", QUOTE>>,
                            <<"BUY">>, <<SP, "3", SP>>, <<"11">>, <<"-2">>, <<"10">>,
                            <<"Liquidation">>, Fill2, <<"2025-07-17">>>>),
      rowBadDec  |-> Line(<<<<"382647166">>, <<"BTCUSDT">>, <<"SELL">>, <<"1.5">>,
                            <<"10">>, <<"2.5">>, <<"abc">>, <<"Trade">>, Fill1,
                            <<"2025-07-18">>>>),
      rowBadDt   |-> Line(<<<<"382647166">>, <<"BTCUSDT">>, <<"SELL">>, <<"1.5">>,
                            <<"10">>, <<"2.5">>, <<"11">>, <<"Trade">>,
                            <<"18/07/2025">>, <<"2025-07-18">>>>),
      \* rows in the order of headerPerm: all ten cells, and the last one missing
      rowPerm    |-> Line(<<<<"382647166">>, <<"BTCUSDT">>, <<"SELL">>, <<"1.5">>,
                            <<"10">>, <<"2.5">>, <<"11">>, Fill1, <<"2025-07-18">>,
                            <<"Trade">>>>),
      rowShort   |-> Line(<<<<"382647166">>, <<"BTCUSDT">>, <<"SELL">>, <<"1.5">>,
                            <<"10">>, <<"2.5">>, <<"11">>, Fill1, <<"2025-07-18">>>>),
      blank      |-> <<NL>> ]

Lines == {LineSamples[n] : n \in DOMAIN LineSamples}

Files == SeqsUpTo(Lines, MaxLines)

-----------------------------------------------------------------------------
(* load_trades *)

LoadError(e) == Error(e, None, None)

\* the existence test and the read of the whole file
LoadOpen ==
    /\ lpc = "idle"
    /\ IF fileExists
       THEN lpc' = "find" /\ index' = 1 /\ UNCHANGED lresult
       ELSE lpc' = "done" /\ lresult' = LoadError("FileNotFound") /\ UNCHANGED index
    /\ UNCHANGED <<fileExists, lines, header_index, fieldnames, pos, loaded,
                   sumVars, logVars>>

\* One iteration of the loop of _find_header_index (index counts from 1),
\* or its end: no line holds the required columns.
FindHeaderStep ==
    /\ lpc = "find"
    /\ IF index > Len(lines)
       THEN /\ lpc' = "done"
            /\ lresult' = LoadError("HeaderNotFound")
            /\ UNCHANGED <<index, header_index>>
       ELSE IF IsHeaderLine(lines[index])
       THEN /\ lpc' = "header"
            /\ header_index' = index
            /\ UNCHANGED <<index, lresult>>
       ELSE /\ index' = index + 1
            /\ UNCHANGED <<lpc, header_index, lresult>>
    /\ UNCHANGED <<fileExists, lines, fieldnames, pos, loaded, sumVars, logVars>>

\* csv.DictReader(lines): the reader given the whole file
ReaderStartWhole(hi) == 1

\* csv.DictReader(lines[header_index:]): where the table reader starts
ReaderStart(hi) == hi

\* The reader takes its field names from the first record it reads, they are
\* cleaned, and the required columns are looked for among them.
ReadHeader ==
    /\ lpc = "header"
    /\ \E rec \in {ReadRecord(lines, ReaderStart(header_index))} :
       \E names \in {[k \in 1..Len(rec.row) |-> CleanHeaderCell(rec.row[k])]} :
       \E missing \in {{c \in RequiredColumns : c \notin SeqToSet(names)}} :
          /\ fieldnames' = names
          /\ pos' = rec.next
          /\ IF missing # {}
             THEN /\ lpc' = "done"
                  /\ lresult' = [LoadError("MissingColumns") EXCEPT !.missing =
                                   SelectSeq(SortedColumns, LAMBDA c : c \in missing)]
                  /\ UNCHANGED loaded
             ELSE /\ lpc' = "rows"
                  /\ loaded' = <<>>
                  /\ UNCHANGED lresult
    /\ UNCHANGED <<fileExists, lines, index, header_index, sumVars, logVars>>

\* a list that keeps one copy of equal Trades
CollectDistinct(list, trade) ==
    IF \E k \in 1..Len(list) : list[k] = trade THEN list ELSE Append(list, trade)

\* what the comprehension does with the Trade of one more row
Collect(list, trade) == Append(list, trade)

\* One more row of the reader goes through _normalize_trade: its Trade joins
\* the list, or its error ends the call.
NormalizeRow ==
    /\ lpc = "rows"
    /\ \E rec \in {NextRow(lines, pos)} :
          /\ rec.found
          /\ pos' = rec.next
          /\ \E t \in {NormalizeTrade(fieldnames, rec.row)} :
                IF t.kind = "error"
                THEN lpc' = "done" /\ lresult' = t /\ UNCHANGED loaded
                ELSE loaded' = Collect(loaded, t.v) /\ UNCHANGED <<lpc, lresult>>
    /\ UNCHANGED <<fileExists, lines, index, header_index, fieldnames,
                   sumVars, logVars>>

\* The reader is exhausted: the list is returned.
LoadReturn ==
    /\ lpc = "rows"
    /\ ~NextRow(lines, pos).found
    /\ lpc' = "done"
    /\ lresult' = [kind |-> "trades", trades |-> loaded]
    /\ UNCHANGED <<fileExists, lines, index, header_index, fieldnames, pos,
                   loaded, sumVars, logVars>>

-----------------------------------------------------------------------------
(* configure_logging.  Callers are threads of the one process: the root    *)
(* logger and the environment are shared, and a caller may be preempted    *)
(* between the test of the root logger's handlers and logging.basicConfig. *)
(* basicConfig itself runs under the logging module's lock and does        *)
(* nothing when the root logger already has a handler.                     *)

MaxCallers == 2
MaxCalls == 2

Callers == 1..MaxCallers

WARNING == 30

\* the upper-case attributes of the logging module
LoggingAttrs ==
    "DEBUG" :> 10 @@ "INFO" :> 20 @@ "WARNING" :> WARNING @@ "ERROR" :> 40 @@
    "BASIC_FORMAT" :> -1      \* a format string, not a level

\* str.upper on the sample names
Upper ==
    "debug" :> "DEBUG" @@ "INFO" :> "INFO" @@ "error" :> "ERROR" @@
    "bogus" :> "BOGUS" @@ "basic_format" :> "BASIC_FORMAT" @@
    "WARNING" :> "WARNING"

\* the log_level argument: None, the empty string, or a name
LevelArgs == {None, Some(""), Some("debug"), Some("INFO"), Some("bogus"),
              Some("basic_format")}

EnvSamples == {None, Some("error"), Some("bogus")}

Handler(c) == [cls |-> "StreamHandler", by |-> c]
AppHandler == [cls |-> "app", by |-> 0]

\* (log_level or os.getenv("BB_CALC_LOG_LEVEL", "WARNING")).upper()
LevelName(arg, env) ==
    Upper[IF arg # None /\ Val(arg) # "" THEN Val(arg)
          ELSE IF env # None THEN Val(env) ELSE "WARNING"]

\* getattr(logging, level_name, logging.WARNING)
LevelOf(name) ==
    IF name \in DOMAIN LoggingAttrs THEN LoggingAttrs[name] ELSE WARNING

\* `if logging.getLogger().handlers`
HasHandlers(h) == h # <<>>

\* logging.basicConfig configures the root logger only when it has no handler
BasicConfigApplies(h) == Len(h) = 0

\* The call begins: with handlers on the root logger it returns at once.
ConfigureEnter(c, arg) ==
    /\ cpc[c] = "idle"
    /\ ccalls[c] < MaxCalls
    /\ ccalls' = [ccalls EXCEPT ![c] = @ + 1]
    /\ IF HasHandlers(handlers)
       THEN UNCHANGED <<cpc, carg>>
       ELSE /\ cpc' = [cpc EXCEPT ![c] = "checked"]
            /\ carg' = [carg EXCEPT ![c] = arg]
    /\ UNCHANGED <<handlers, rootLevel, environ, installs, sumVars, loadVars>>

\* The level is worked out and basicConfig called: under the module's lock
\* it adds a stream handler and then sets the level, which fails for a value
\* that is no level, leaving the handler in place.
ConfigureApply(c) ==
    /\ cpc[c] = "checked"
    /\ LET level == LevelOf(LevelName(carg[c], environ))
       IN  IF BasicConfigApplies(handlers)
           THEN /\ handlers' = Append(handlers, Handler(c))
                /\ rootLevel' = IF level >= 0 THEN level ELSE rootLevel
                /\ installs' = installs + 1
           ELSE UNCHANGED <<handlers, rootLevel, installs>>
    /\ cpc' = [cpc EXCEPT ![c] = "idle"]
    /\ carg' = [carg EXCEPT ![c] = None]
    /\ UNCHANGED <<environ, ccalls, sumVars, loadVars>>

-----------------------------------------------------------------------------
(* Specifications.  Each follows one component; the others stay idle. *)

NoResult == [kind |-> "none"]

IdleSum ==
    /\ trades = <<>> /\ start = None /\ end = None /\ api = "none"
    /\ spc = "off" /\ cursor = 0 /\ total = DecZero /\ trade_count = 0
    /\ earliest = None /\ latest = None /\ sresult = NoResult

IdleLoad ==
    /\ fileExists = FALSE /\ lines = <<>> /\ lpc = "off" /\ index = 0
    /\ header_index = 0 /\ fieldnames = <<>> /\ pos = 0 /\ loaded = <<>>
    /\ lresult = NoResult

IdleLog ==
    /\ handlers = <<>> /\ rootLevel = WARNING /\ environ = None
    /\ cpc = [c \in Callers |-> "off"] /\ carg = [c \in Callers |-> None]
    /\ ccalls = [c \in Callers |-> 0] /\ installs = 0

\* The aggregator is called with any sequence of sample trades and any bounds.
InitSum ==
    /\ trades \in SeqsUpTo(TradeSamples, MaxTrades)
    /\ start \in BoundSamples
    /\ end \in BoundSamples
    /\ api = "none" /\ spc = "idle" /\ cursor = 0 /\ total = DecZero
    /\ trade_count = 0 /\ earliest = None /\ latest = None
    /\ sresult = NoResult
    /\ IdleLoad /\ IdleLog

NextSum == SummarizeCall \/ CalculateCall \/ SummarizeStep \/ SummarizeReturn

\* The loader is called on a path that does not exist, or on any sample file.
InitLoad ==
    /\ fileExists \in BOOLEAN
    /\ lines \in (IF fileExists THEN Files ELSE {<<>>})
    /\ lpc = "idle" /\ index = 0 /\ header_index = 0 /\ fieldnames = <<>>
    /\ pos = 0 /\ loaded = <<>> /\ lresult = NoResult
    /\ IdleSum /\ IdleLog

NextLoad == LoadOpen \/ FindHeaderStep \/ ReadHeader \/ NormalizeRow \/ LoadReturn

\* A process whose root logger is bare, or already has the application's
\* handler; the threads call configure_logging.
InitLog ==
    /\ handlers \in {<<>>, <<AppHandler>>}
    /\ rootLevel = WARNING
    /\ environ \in EnvSamples
    /\ cpc = [c \in Callers |-> "idle"]
    /\ carg = [c \in Callers |-> None]
    /\ ccalls = [c \in Callers |-> 0]
    /\ installs = 0
    /\ IdleSum /\ IdleLoad

NextLog ==
    \/ \E c \in Callers, arg \in LevelArgs : ConfigureEnter(c, arg)
    \/ \E c \in Callers : ConfigureApply(c)

SpecSum  == InitSum /\ [][NextSum]_vars
SpecLoad == InitLoad /\ [][NextLoad]_vars
SpecLog  == InitLog /\ [][NextLog]_vars

-----------------------------------------------------------------------------
(* Properties of the aggregator, under SpecSum *)

\* The window as the contract states it: both bounds inclusive, a bound that
\* is not given excludes nothing.
InWindow(t, s, e) ==
    /\ (s = None \/ t.filled_time >= Val(s))
    /\ (e = None \/ t.filled_time <= Val(e))

Included == {k \in 1..Len(trades) : InWindow(trades[k], start, end)}

RECURSIVE ExactSum(_)
\* the sum of the realized P&L of a sequence of trades, no digit dropped
ExactSum(ts) ==
    IF ts = <<>> THEN DecZero
    ELSE ExactAdd(ExactSum(SubSeq(ts, 1, Len(ts) - 1)), ts[Len(ts)].realized_pnl)

ValidWindow == ~(start # None /\ end # None /\ Val(start) > Val(end))

IsRangeError(r) == r.kind = "error" /\ r.err = "InvalidRange"

\* C1: a summary's total is the exact sum of the realized P&L of the trades in
\* the window (both bounds inclusive, every trade when no bound is given),
\* and its trade_count is their number.
C1_TotalIsExactSum ==
    (spc = "done" /\ sresult.kind = "summary") =>
        /\ sresult.trade_count = Cardinality(Included)
        /\ DecEq(sresult.total,
                 ExactSum(SelectSeq(trades, LAMBDA t : InWindow(t, start, end))))

\* What holds of the total instead (not a claim): the count is right, and the
\* total is exact whenever the exact sum of every prefix of the included
\* trades fits the 28 digits of the context.
TotalExactWithinPrecision ==
    (spc = "done" /\ sresult.kind = "summary") =>
        \A inc \in {SelectSeq(trades, LAMBDA t : InWindow(t, start, end))} :
            /\ sresult.trade_count = Len(inc)
            /\ (\A n \in 0..Len(inc) :
                    Len(ExactSum(SubSeq(inc, 1, n)).dig) <= Prec)
               => sresult.total = ExactSum(inc)

\* C2: with both bounds given and start after end the call fails with the
\* invalid-range error before it looks at any trade, through either entry
\* point and for every input; in every other case that error is not raised.
C2_InvalidRangeAlwaysFails ==
    /\ spc = "done" => (IsRangeError(sresult) <=> ~ValidWindow)
    /\ (spc # "idle" /\ ~ValidWindow) =>
            spc = "done" /\ IsRangeError(sresult) /\ cursor = 0

\* reached: the error for an empty input, through calculate_realized_pnl
C2_Witness ==
    /\ spc = "done" /\ api = "calculate" /\ trades = <<>>
    /\ IsRangeError(sresult)

\* C3: earliest_fill and latest_fill are the least and the greatest filled
\* time among the included trades, both unset exactly when none is included;
\* start and end are the caller's bounds.
C3_FillsAndBounds ==
    (spc = "done" /\ sresult.kind = "summary") =>
        \A times \in {{trades[k].filled_time : k \in Included}} :
            /\ sresult.start = start
            /\ sresult.end = end
            /\ (times = {}) <=> (sresult.earliest_fill = None)
            /\ (times = {}) <=> (sresult.latest_fill = None)
            /\ times # {} =>
                /\ Val(sresult.earliest_fill) \in times
                /\ Val(sresult.latest_fill) \in times
                /\ \A t \in times : /\ Val(sresult.earliest_fill) <= t
                                    /\ t <= Val(sresult.latest_fill)

\* reached: a window that keeps trades of different times and leaves one out
C3_Witness ==
    /\ spc = "done" /\ sresult.kind = "summary"
    /\ start # None /\ end # None
    /\ sresult.trade_count = 2 /\ Len(trades) = 3
    /\ sresult.earliest_fill # sresult.latest_fill

\* C4: for an empty input, and for a valid window no trade falls in, the call
\* does not fail and gives total 0, count 0, earliest and latest unset.
C4_NothingIncluded ==
    (spc = "done" /\ ValidWindow /\ Included = {}) =>
        /\ sresult.kind \in {"summary", "total"}
        /\ sresult.total = DecZero
        /\ sresult.kind = "summary" =>
              /\ sresult.trade_count = 0
              /\ sresult.earliest_fill = None
              /\ sresult.latest_fill = None

\* reached: trades on either side of a valid window, none inside
C4_Witness ==
    /\ spc = "done" /\ sresult.kind = "summary"
    /\ Len(trades) = 2 /\ start # None /\ end # None /\ Val(start) <= Val(end)
    /\ trades[1].filled_time < Val(start) /\ trades[2].filled_time > Val(end)
    /\ sresult.trade_count = 0

-----------------------------------------------------------------------------
(* Properties of the loader, under SpecLoad.  The file is described here   *)
(* by what it holds, apart from the steps load_trades takes.               *)

\* line holds every required name among its cells, blanks trimmed and a
\* leading byte-order mark dropped
HoldsAllNames(line) ==
    \A rowOfLine \in {ReadRecord(<<line>>, 1).row} :
        \A c \in RequiredColumns :
            \E k \in 1..Len(rowOfLine) : LStrip(Strip(rowOfLine[k]), {BOM}) = c

\* the lowest-indexed such line, 0 when there is none
FirstHeader(ls) ==
    CHOOSE k \in 0..Len(ls) :
        /\ k # 0 => HoldsAllNames(ls[k])
        /\ \A j \in 1..(IF k = 0 THEN Len(ls) ELSE k - 1) : ~HoldsAllNames(ls[j])

\* the column names the table reader derives when it starts at line h
NamesFrom(ls, h) ==
    LET rec == ReadRecord(ls, h)
    IN  [k \in 1..Len(rec.row) |-> CleanHeaderCell(rec.row[k])]

RECURSIVE RowsFrom(_, _)
\* the data rows of ls from line p on: the records that are not blank lines
RowsFrom(ls, p) ==
    LET rec == NextRow(ls, p)
    IN  IF rec.found THEN <<rec.row>> \o RowsFrom(ls, rec.next) ELSE <<>>

\* the data rows that follow the header found at line h
DataRows(ls, h) == RowsFrom(ls, ReadRecord(ls, h).next)

\* the column of a name (the last one, should the header repeat it), whether
\* a row has a cell there, and the cell
ColumnOf(names, c) ==
    CHOOSE k \in 1..Len(names) : names[k] = c /\ \A j \in (k + 1)..Len(names) : names[j] # c
HasCell(names, row, c) == ColumnOf(names, c) <= Len(row)
CellOf(names, row, c) == row[ColumnOf(names, c)]

DecimalColumns == <<Qty, EntryPrice, RealizedPnL, FilledPrice>>
TimeColumns    == <<FilledTime, CreateTime>>
\* the order in which _normalize_trade converts
ConvertedColumns == DecimalColumns \o TimeColumns

IsDecimalText(cell) ==
    Len(Strip(cell)) = 1 /\ Strip(cell)[1] \in DOMAIN DecimalWords
DecimalOf(cell) == DecimalWords[Strip(cell)[1]]

IsTimeText(cell) ==
    \/ Len(cell) = 1 /\ cell[1] \in DOMAIN DateWords
    \/ /\ Len(cell) >= 3 /\ cell[1] \in DOMAIN DateWords
       /\ cell[Len(cell)] \in DOMAIN TimeWords
       /\ \A k \in 2..(Len(cell) - 1) : cell[k] \in {SP, NL}
TimeOf(cell) ==
    DateWords[cell[1]] * 86400 + (IF Len(cell) = 1 THEN 0 ELSE TimeWords[cell[Len(cell)]])

IsDecimalColumn(c) == c \in SeqToSet(DecimalColumns)

\* the cell of column c parses as its column requires
CellParses(names, row, c) ==
    IF IsDecimalColumn(c) THEN IsDecimalText(CellOf(names, row, c))
    ELSE IsTimeText(CellOf(names, row, c))

\* row is complete and well formed under the header names
RowValid(names, row) ==
    /\ \A c \in RequiredColumns : HasCell(names, row, c)
    /\ \A k \in 1..Len(ConvertedColumns) : CellParses(names, row, ConvertedColumns[k])

\* the Trade a well-formed row stands for
TradeOf(names, row) ==
    Trade(Some(CellOf(names, row, Uid)), Some(CellOf(names, row, Contracts)),
          Some(CellOf(names, row, TradeType)),
          DecimalOf(CellOf(names, row, Qty)),
          DecimalOf(CellOf(names, row, EntryPrice)),
          DecimalOf(CellOf(names, row, RealizedPnL)),
          DecimalOf(CellOf(names, row, FilledPrice)),
          Some(CellOf(names, row, ExitType)),
          TimeOf(CellOf(names, row, FilledTime)),
          TimeOf(CellOf(names, row, CreateTime)))

IsLoadError(r, e) == r.kind = "error" /\ r.err = e

Loaded == lpc = "done" /\ fileExists

\* the conversion of column c fails on row: no cell, or a cell that does not
\* parse
ConversionFails(names, row, c) ==
    ~HasCell(names, row, c) \/ ~CellParses(names, row, c)

RowConverts(names, row) ==
    \A k \in 1..Len(ConvertedColumns) : ~ConversionFails(names, row, ConvertedColumns[k])

\* the error of the first conversion that fails on row
FailureOf(names, row) ==
    LET failing == {k \in 1..Len(ConvertedColumns) :
                        ConversionFails(names, row, ConvertedColumns[k])}
        c == ConvertedColumns[CHOOSE k \in failing : \A j \in failing : k <= j]
    IN  IF ~HasCell(names, row, c) THEN Error("TypeError", c, None)
        ELSE IF IsDecimalColumn(c)
        THEN Error("InvalidDecimal", c, Some(CellOf(names, row, c)))
        ELSE Error("UnsupportedDatetime", c, Some(CellOf(names, row, c)))

OptCell(names, row, c) ==
    IF HasCell(names, row, c) THEN Some(CellOf(names, row, c)) ELSE None

\* the record of a row whose conversions succeed
RecordOf(names, row) ==
    Trade(OptCell(names, row, Uid), OptCell(names, row, Contracts),
          OptCell(names, row, TradeType),
          DecimalOf(CellOf(names, row, Qty)),
          DecimalOf(CellOf(names, row, EntryPrice)),
          DecimalOf(CellOf(names, row, RealizedPnL)),
          DecimalOf(CellOf(names, row, FilledPrice)),
          OptCell(names, row, ExitType),
          TimeOf(CellOf(names, row, FilledTime)),
          TimeOf(CellOf(names, row, CreateTime)))

\* r is what loading gives for a file whose first line is its header: the
\* missing-columns error, the error of the first row with a failing
\* conversion, or the records of the rows.
IsOutcome(r, ls) ==
    \A names \in {NamesFrom(ls, 1)} :
        IF ~(RequiredColumns \subseteq SeqToSet(names))
        THEN r = [LoadError("MissingColumns") EXCEPT !.missing =
                     SelectSeq(SortedColumns, LAMBDA c : c \notin SeqToSet(names))]
        ELSE \A rows \in {DataRows(ls, 1)} :
             \A bad \in {{i \in 1..Len(rows) : ~RowConverts(names, rows[i])}} :
                r = IF bad # {}
                    THEN FailureOf(names, rows[CHOOSE i \in bad : \A j \in bad : i <= j])
                    ELSE [kind |-> "trades",
                          trades |-> [i \in 1..Len(rows) |-> RecordOf(names, rows[i])]]

\* C5: the header is the lowest-indexed line that holds all ten names; the
\* lines before it have no part in the result, which is that of the file
\* that begins at the header; with no such line the load fails with the
\* header-not-found error.
C5_HeaderIsFirstMatch ==
    /\ header_index # 0 => header_index = FirstHeader(lines)
    /\ Loaded =>
        \A h \in {FirstHeader(lines)} :
            /\ IsLoadError(lresult, "HeaderNotFound") <=> h = 0
            /\ h # 0 => /\ header_index = h
                        /\ IsOutcome(lresult, SubSeq(lines, h, Len(lines)))

\* reached: an unparseable metadata line and a line with nine of the names
\* before a header that has a byte-order mark, and a row loaded
C5_Witness ==
    /\ Loaded /\ Len(lines) = 3
    /\ lines[1] = LineSamples.preamble
    /\ lines[2] = LineSamples.headerBom
    /\ lresult.kind = "trades" /\ Len(lresult.trades) = 1

\* the file is valid: it has a header, the reader's names hold the required
\* ones, and every data row is complete and well formed
ValidFile(ls) ==
    \E h \in {FirstHeader(ls)} :
        /\ h # 0
        /\ \A names \in {NamesFrom(ls, h)} :
              /\ RequiredColumns \subseteq SeqToSet(names)
              /\ \A rows \in {DataRows(ls, h)} :
                    \A i \in 1..Len(rows) : RowValid(names, rows[i])

\* C6: for a valid file the result is one record per data row after the
\* header, in file order, none dropped, repeated, merged or moved, each
\* holding the values of the row's cells under the header's names.
C6_OneRecordPerRow ==
    (Loaded /\ ValidFile(lines)) =>
        \A h \in {FirstHeader(lines)} :
        \A names \in {NamesFrom(lines, h)} :
        \A rows \in {DataRows(lines, h)} :
            /\ lresult.kind = "trades"
            /\ Len(lresult.trades) = Len(rows)
            /\ \A i \in 1..Len(rows) : lresult.trades[i] = TradeOf(names, rows[i])

\* reached: two identical rows under the header with the permuted columns
C6_Witness ==
    /\ Loaded /\ lines = <<LineSamples.headerPerm, LineSamples.rowPerm,
                           LineSamples.rowPerm>>
    /\ lresult.kind = "trades" /\ Len(lresult.trades) = 2
    /\ lresult.trades[1] = lresult.trades[2]
    /\ lresult.trades[1].exit_type = Some(<<"Trade">>)

HeaderRead(h) ==
    h # 0 /\ RequiredColumns \subseteq SeqToSet(NamesFrom(lines, h))

\* the cells of the data rows that are there and do not parse, by kind
BadCells(names, rows, columns) ==
    {<<i, c>> \in (1..Len(rows)) \X SeqToSet(columns) :
        HasCell(names, rows[i], c) /\ ~CellParses(names, rows[i], c)}

\* C7 as stated: a decimal cell that does not parse makes the load fail with
\* the invalid-decimal error naming such a cell, and a timestamp cell that
\* matches no format makes it fail with the unsupported-format error naming
\* such a cell.  (Only files whose rows all have every cell are looked at.)
C7_ErrorOfAnyBadCell ==
    Loaded =>
    \A h \in {FirstHeader(lines)} :
    HeaderRead(h) =>
        \A names \in {NamesFrom(lines, h)} :
        \A rows \in {DataRows(lines, h)} :
        (\A i \in 1..Len(rows) : \A c \in RequiredColumns : HasCell(names, rows[i], c)) =>
            /\ BadCells(names, rows, DecimalColumns) # {} =>
                 /\ IsLoadError(lresult, "InvalidDecimal")
                 /\ \E b \in BadCells(names, rows, DecimalColumns) :
                       /\ lresult.column = b[2]
                       /\ lresult.value = Some(CellOf(names, rows[b[1]], b[2]))
            /\ BadCells(names, rows, TimeColumns) # {} =>
                 /\ IsLoadError(lresult, "UnsupportedDatetime")
                 /\ \E b \in BadCells(names, rows, TimeColumns) :
                       /\ lresult.column = b[2]
                       /\ lresult.value = Some(CellOf(names, rows[b[1]], b[2]))

\* C7 amended: when a conversion fails on some data row the load fails and
\* gives no records, those of the rows before included, and its error is
\* that of the first failing conversion, rows in file order and the columns
\* of a row in the order Qty, Entry Price, Realized P&L, Filled Price,
\* Filled/Settlement Time, Create Time: invalid-decimal or
\* unsupported-format naming the column and the cell, or a type error for a
\* cell that is not there.
C7_FirstFailureAborts ==
    Loaded =>
    \A h \in {FirstHeader(lines)} :
    HeaderRead(h) =>
        \A names \in {NamesFrom(lines, h)} :
        \A rows \in {DataRows(lines, h)} :
        \A bad \in {{i \in 1..Len(rows) : ~RowConverts(names, rows[i])}} :
            bad # {} =>
                /\ lresult.kind = "error"
                /\ lresult = FailureOf(names, rows[CHOOSE i \in bad : \A j \in bad : i <= j])

\* reached: a well-formed row was converted, the next row's decimal failed,
\* and the call gave the error
C7_Witness ==
    /\ Loaded /\ lines = <<LineSamples.header, LineSamples.rowA, LineSamples.rowBadDec>>
    /\ Len(loaded) = 1
    /\ IsLoadError(lresult, "InvalidDecimal")
    /\ lresult.column = FilledPrice /\ lresult.value = Some(<<"abc">>)

\* C8: a data row that lacks a cell for a required column makes the load
\* fail, and no returned record has a field without a value.
C8_NoFieldMissing ==
    Loaded =>
    \A h \in {FirstHeader(lines)} :
    HeaderRead(h) =>
        /\ (\E i \in 1..Len(DataRows(lines, h)) : \E c \in RequiredColumns :
                ~HasCell(NamesFrom(lines, h), DataRows(lines, h)[i], c))
           => lresult.kind = "error"
        /\ lresult.kind = "trades" =>
              \A i \in 1..Len(lresult.trades) :
                  /\ lresult.trades[i].uid # None
                  /\ lresult.trades[i].contract # None
                  /\ lresult.trades[i].trade_type # None
                  /\ lresult.trades[i].exit_type # None

\* the line ends inside a quoted cell: a quote opened and not closed
EndsInOpenQuote(line) == ProcessLine(ParserReset, line).st = "IN_QUOTED_FIELD"

\* C10 as stated: once a header line is found the reader's cleaned names hold
\* all ten required names, and the missing-columns error is never raised.
C10_MissingColumnsUnreachable ==
    (header_index # 0 /\ lpc \in {"rows", "done"}) =>
        /\ RequiredColumns \subseteq SeqToSet(fieldnames)
        /\ ~IsLoadError(lresult, "MissingColumns")

\* C10 amended: the same, unless the header line ends inside a quoted cell
\* and further lines follow, which the reader then takes into that cell.
C10_MissingColumnsOnlyOpenQuote ==
    (/\ header_index # 0 /\ lpc \in {"rows", "done"}
     /\ ~(EndsInOpenQuote(lines[header_index]) /\ header_index < Len(lines))) =>
        /\ RequiredColumns \subseteq SeqToSet(fieldnames)
        /\ ~IsLoadError(lresult, "MissingColumns")

\* reached: the header with the open quote as the last line of the file, its
\* names read and complete
C10_Witness ==
    /\ lpc = "rows" /\ header_index = 2 /\ Len(lines) = 2
    /\ lines[2] = LineSamples.headerOpen
    /\ RequiredColumns \subseteq SeqToSet(fieldnames)

-----------------------------------------------------------------------------
(* Properties of the logging set-up, under SpecLog *)

\* a caller is in a call that found no handler and has yet to call
\* basicConfig
Checked(c) == cpc[c] = "checked"

\* C9: over every interleaving of calls the configuration is applied at most
\* once; the step that installs the handler on a root logger without one
\* also sets the root level to the level resolved by that call; and no step
\* taken while a handler is installed changes the handlers or the level.
C9_AppliedOnceWithLevel ==
    [][/\ installs' <= 1
       /\ handlers # <<>> => (handlers' = handlers /\ rootLevel' = rootLevel)
       /\ (handlers = <<>> /\ handlers' # <<>>) =>
             \E c \in Callers :
                /\ Checked(c) /\ ~Checked(c)'
                /\ rootLevel' = LevelOf(LevelName(carg[c], environ))]_vars

\* The part of C9 that holds: at most one handler is ever installed by the
\* calls, and with a handler installed nothing changes.
AppliedAtMostOnce ==
    [][/\ installs' <= 1
       /\ handlers # <<>> => (handlers' = handlers /\ rootLevel' = rootLevel)]_vars

=============================================================================
